---- MODULE Spec2Model ----
(***************************************************************************)
(* State-machine model of the e-commerce administration backend:          *)
(* the order status routes, the product write routes, slug generation,    *)
(* the image-replacing entity updates and the object storage adapter.     *)
(*                                                                         *)
(* Every handler that awaits only one database call after another is one  *)
(* action.  The dispatch and cancel routes are two steps, because the     *)
(* write they start outlives the response they send.                      *)
(***************************************************************************)
EXTENDS Integers, Sequences, FiniteSets, TLC

(***************************************************************************)
(* Bounds of the model.                                                    *)
(***************************************************************************)
MaxClock == 2

\* writes started by updateById that may be on their way at once
MaxWrites == 1

\* objects one run may upload to storage
MaxUploads == 2

\* documents the collections may hold together
MaxDocs == 3

\* files of one call of uploadMultipleImages
MaxFiles == 4

\* CMS records the collection may hold
MaxCmsDocs == 3

\* upserts that found no record and have not inserted yet
MaxUpserts == 2

\* the largest number of documents a list request finds matching its filter
MaxListed == 25

\* the largest number of create requests between lookup and insert
MaxCreating == 2

(***************************************************************************)
(* Orders: src/routes/orders.js and the admin route of src/unnamed/part_003*)
(***************************************************************************)
VARIABLES orders, orderCreated, writes, ores, now

\* the collections of the other entities, the stored objects, the name of the
\* next upload and the entity request answered last
VARIABLES docs, bucket, nextUrl, last

\* the call of uploadMultipleImages under way: the upload of each of its files
\* and the outcome of the call
VARIABLES batch

\* the CMS collection and the inserts of upserts that matched no record
VARIABLES cms, upserts

\* the request a middleware or a read-only route answered last
VARIABLES probe

\* the create requests that have looked their slug up and not inserted yet
VARIABLES creating

\* the admin accounts, the number of reset tokens crypto.randomBytes has
\* produced, and what has happened to each account so far: the wrong codes
\* sent since its code was last requested, the tokens that have changed its
\* password, and the tokens issued before its code was last requested
VARIABLES admins, minted, history

varsAdmin == <<admins, minted, history>>

varsCms == <<cms, upserts>>

varsEntities == <<docs, bucket, nextUrl, last>>

Statuses == {"Pending", "Dispatched", "Delivered", "Cancelled"}

\* values a client may send as body.status; "Shipped" stands for any other string
BodyStatuses == Statuses \cup {"Shipped"}

\* body.reason of the cancel route: absent, or a text
Reasons == {"", "damaged"}

\* tracking number of a dispatch request: absent, or a text
Trackings == {"", "TRK1"}

\* Every order route reads and writes the one document its :id names, so the
\* model follows one order: "o1" is its id, "o404" an id no order has.
AddressableOrderIds == {"o1", "o404"}

\* status a new order gets when the body names none
DefaultOrderStatus == "Pending"

\* the response of the request answered last: route, HTTP status, and the
\* order status the handler found ("none" when it found no order)
NoResponse == [kind |-> "none", resp |-> 0, seen |-> "none"]

Response(kind, resp, seen) == [kind |-> kind, resp |-> resp, seen |-> seen]

\* 0 stands for a timestamp that was never set
NewOrder == [status |-> DefaultOrderStatus, dispatchedAt |-> 0, deliveredAt |-> 0,
             cancelledAt |-> 0, cancellationReason |-> "", tracking |-> ""]

OrderExists(id) == id \in DOMAIN orders

InitOrders ==
    /\ orders = [i \in {} |-> NewOrder]
    /\ orderCreated = FALSE
    /\ writes = {}
    /\ ores = NoResponse
    /\ now = 1

varsOrders == <<orders, orderCreated, writes, ores>>

\* POST /orders: validation of the body, then new Order(body).save()
CreateOrder(valid) ==
    /\ IF ~valid
       THEN /\ ores' = Response("create", 400, "none")
            /\ UNCHANGED <<orders, orderCreated>>
       ELSE /\ ~orderCreated
            /\ orders' = [i \in {"o1"} |-> NewOrder]
            /\ orderCreated' = TRUE
            /\ ores' = Response("create", 201, "none")
    /\ UNCHANGED <<writes, now, varsEntities, batch, varsCms, probe, creating, varsAdmin>>

StatusUpdateDocNoDelivered(o, status) ==
    [o EXCEPT !.status = status,
              !.dispatchedAt = IF status = "Dispatched" THEN now ELSE @,
              !.cancelledAt = IF status = "Cancelled" THEN now ELSE @]

\* the update document both status routes hand to findByIdAndUpdate
StatusUpdateDoc(o, status) ==
    [o EXCEPT !.status = status,
              !.dispatchedAt = IF status = "Dispatched" THEN now ELSE @,
              !.deliveredAt = IF status = "Delivered" THEN now ELSE @,
              !.cancelledAt = IF status = "Cancelled" THEN now ELSE @]

\* the body shared by PATCH /orders/:id/status and PATCH /admin/orders/:id/status
StatusRoute(id, status, kind) ==
    /\ IF status \notin Statuses
       THEN /\ ores' = Response(kind, 400, "none")
            /\ UNCHANGED orders
       ELSE IF ~OrderExists(id)
       THEN /\ ores' = Response(kind, 404, "none")
            /\ UNCHANGED orders
       ELSE /\ orders' = [orders EXCEPT ![id] = StatusUpdateDoc(orders[id], status)]
            /\ ores' = Response(kind, 200, orders[id].status)
    /\ UNCHANGED <<orderCreated, writes, now, varsEntities, batch, varsCms, probe, creating, varsAdmin>>

PatchOrderStatus(id, status) == StatusRoute(id, status, "status")

AdminPatchOrderStatus(id, status) == StatusRoute(id, status, "adminStatus")

\* the update document of the dispatch route
DispatchDoc(o, tracking, at) ==
    [o EXCEPT !.status = "Dispatched", !.dispatchedAt = at, !.tracking = tracking]

\* the update document of the cancel route
CancelDoc(o, reason, at) ==
    [o EXCEPT !.status = "Cancelled", !.cancelledAt = at,
              !.cancellationReason = IF reason = "" THEN "No reason provided" ELSE reason]

\* a write that updateById has started and the database has not applied yet
PendingWrite(kind, id, arg, at) == [kind |-> kind, id |-> id, arg |-> arg, at |-> at]

\* PATCH /orders/:id/dispatch up to its response: findById, the guards, and
\* the call updateById(...).populate(...).  updateById is an async function, so
\* it returns a promise, which has no populate: the call throws a TypeError
\* after updateById has started, the catch block answers 500, and the update
\* started by updateById is still on its way to the database.
DispatchOrder(id, tracking) ==
    /\ IF ~OrderExists(id)
       THEN /\ ores' = Response("dispatch", 404, "none")
            /\ UNCHANGED writes
       ELSE IF orders[id].status # "Pending"
       THEN /\ ores' = Response("dispatch", 400, orders[id].status)
            /\ UNCHANGED writes
       ELSE /\ Cardinality(writes) < MaxWrites
            /\ writes' = writes \cup {PendingWrite("dispatch", id, tracking, now)}
            /\ ores' = Response("dispatch", 500, orders[id].status)
    /\ UNCHANGED <<orders, orderCreated, now, varsEntities, batch, varsCms, probe, creating, varsAdmin>>

\* PATCH /orders/:id/cancel up to its response, as DispatchOrder
CancelOrder(id, reason) ==
    /\ IF ~OrderExists(id)
       THEN /\ ores' = Response("cancel", 404, "none")
            /\ UNCHANGED writes
       ELSE IF orders[id].status = "Delivered"
       THEN /\ ores' = Response("cancel", 400, orders[id].status)
            /\ UNCHANGED writes
       ELSE /\ Cardinality(writes) < MaxWrites
            /\ writes' = writes \cup {PendingWrite("cancel", id, reason, now)}
            /\ ores' = Response("cancel", 500, orders[id].status)
    /\ UNCHANGED <<orders, orderCreated, now, varsEntities, batch, varsCms, probe, creating, varsAdmin>>

\* updateById: Model.findByIdAndUpdate(id, update), run after the await of the
\* connection; it changes nothing when no document has the id
updateById(w) ==
    /\ w \in writes
    /\ IF OrderExists(w.id)
       THEN orders' = [orders EXCEPT ![w.id] =
                           IF w.kind = "dispatch"
                           THEN DispatchDoc(orders[w.id], w.arg, w.at)
                           ELSE CancelDoc(orders[w.id], w.arg, w.at)]
       ELSE UNCHANGED orders
    /\ writes' = writes \ {w}
    /\ UNCHANGED <<orderCreated, ores, now, varsEntities, batch, varsCms, probe, creating, varsAdmin>>

\* DELETE /orders/:id
DeleteOrder(id) ==
    /\ IF OrderExists(id)
       THEN /\ orders' = [i \in DOMAIN orders \ {id} |-> orders[i]]
            /\ ores' = Response("delete", 200, orders[id].status)
       ELSE /\ UNCHANGED orders
            /\ ores' = Response("delete", 404, "none")
    /\ UNCHANGED <<orderCreated, writes, now, varsEntities, batch, varsCms, probe, creating, varsAdmin>>

\* the answer of verifyToken to a request without a valid token: the handler
\* does not run
Unauthorized(kind) ==
    /\ ores' = Response(kind, 401, "none")
    /\ UNCHANGED <<orders, orderCreated, writes, now, varsEntities, batch, varsCms, probe, creating, varsAdmin>>

\* The order routes as they are mounted, for a request that passed
\* verifyToken or carries no valid token.  POST /orders names verifyToken in
\* its middleware, and routes/admin puts router.use(verifyToken) before its
\* order routes; the other order routes name no middleware, so their handlers
\* run whatever the request carries.
CreateOrderRequest(authenticated, valid) ==
    IF authenticated THEN CreateOrder(valid) ELSE Unauthorized("create")

AdminOrderStatusRequest(authenticated, id, status) ==
    IF authenticated THEN AdminPatchOrderStatus(id, status) ELSE Unauthorized("adminStatus")

OrderStatusRequest(authenticated, id, status) == PatchOrderStatus(id, status)

OrderDispatchRequest(authenticated, id, tracking) == DispatchOrder(id, tracking)

OrderCancelRequest(authenticated, id, reason) == CancelOrder(id, reason)

OrderDeleteRequest(authenticated, id) == DeleteOrder(id)

(***************************************************************************)
(* Storage: the local upload directory of src/config/cloudinary.js and the *)
(* R2 bucket of R2ImageService (src/unnamed/part_000).  An object is named *)
(* by the URL its upload returned; uploads draw fresh names.               *)
(***************************************************************************)
\* the image of a document without image (null, '' or undefined)
NoImage == 0

\* uploadImage / uploadSingleImage: the object exists once the upload succeeded
Stored(b, url, ok) == IF ok THEN b \cup {url} ELSE b

\* deleteImage of src/config/cloudinary.js: false when no such file exists,
\* true after unlinkSync, and the error of unlinkSync is rethrown
LocalDeleteOutcome(b, url, fails) ==
    IF url \notin b THEN "delete_false" ELSE IF fails THEN "delete_throws" ELSE "delete_ok"

\* R2ImageService.deleteImage: true after the DeleteObjectCommand, false when
\* it threw; it never throws itself
R2DeleteOutcome(fails) == IF fails THEN "delete_false" ELSE "delete_ok"

AfterDelete(b, url, outcome) == IF outcome = "delete_ok" THEN b \ {url} ELSE b

(***************************************************************************)
(* Slugs.  A name is a sequence of characters.                             *)
(***************************************************************************)
UpperCase == <<"A", "B", "C">>

LowerOfUpper == <<"a", "b", "c">>

SlugChars == {"a", "b", "c", "0", "1", "2", "3", "4", "5", "6", "7", "8", "9"}

\* String.prototype.toLowerCase
toLowerCase(str) ==
    [i \in 1..Len(str) |->
        IF \E k \in 1..Len(UpperCase) : UpperCase[k] = str[i]
        THEN LowerOfUpper[CHOOSE k \in 1..Len(UpperCase) : UpperCase[k] = str[i]]
        ELSE str[i]]

RECURSIVE ReplaceRuns(_)
\* .replace(/[^a-z0-9]+/g, '-'): every run of other characters becomes one hyphen
ReplaceRuns(str) ==
    IF str = <<>> THEN <<>>
    ELSE IF Head(str) \in SlugChars THEN <<Head(str)>> \o ReplaceRuns(Tail(str))
    ELSE IF Len(str) > 1 /\ str[2] \notin SlugChars THEN ReplaceRuns(Tail(str))
    ELSE <<"-">> \o ReplaceRuns(Tail(str))

RECURSIVE TrimHyphens(_)
\* .replace(/^-+|-+$/g, '')
TrimHyphens(str) ==
    IF str = <<>> THEN <<>>
    ELSE IF Head(str) = "-" THEN TrimHyphens(Tail(str))
    ELSE IF str[Len(str)] = "-" THEN TrimHyphens(SubSeq(str, 1, Len(str) - 1))
    ELSE str

Slugify(name) == TrimHyphens(ReplaceRuns(toLowerCase(name)))

\* `${slug}-${Date.now()}`
WithTimestamp(slug) == slug \o <<"-", ToString(now)>>

\* names a request may carry
Names == {<<"A", " ", "b">>, <<"C", "!">>}

(***************************************************************************)
(* Collections: categories, contact pages and riders have a name, a slug  *)
(* and one image; a rider has no slug and keeps the empty one.  Products   *)
(* have a list of images and the stock fields.                             *)
(***************************************************************************)
Kinds == {"category", "contact", "rider", "product", "subcategory"}

Doc(name, slug, image) == [name |-> name, slug |-> slug, image |-> image]

\* the image URLs a document stores: the images array of a product, the image
\* (featuredImage) of the others
ImagesOf(d) == IF "images" \in DOMAIN d THEN d.images ELSE {d.image} \ {NoImage}

TotalDocs == Len(docs["category"]) + Len(docs["contact"]) + Len(docs["rider"])
                 + Len(docs["product"]) + Len(docs["subcategory"])

\* findById
Found(kind, id) == id \in 1..Len(docs[kind])

\* findOne({slug, _id: {$ne: id}}); id 0 excludes no document
SlugTaken(kind, slug, id) ==
    \E i \in 1..Len(docs[kind]) : i # id /\ docs[kind][i].slug = slug

\* the slug a create or a rename stores: the bare slug, or the slug with the
\* clock appended when another document has the bare slug
UniqueSlug(kind, name, id) ==
    IF SlugTaken(kind, Slugify(name), id) THEN WithTimestamp(Slugify(name))
    ELSE Slugify(name)

\* the unique index on slug: an insert or update that would store a slug
\* another document has fails with error code 11000
NoUniqueIndex(kind, slug, id) == FALSE

DuplicateKey(kind, slug, id) == SlugTaken(kind, slug, id)

\* the request answered last by an entity route: route, collection, HTTP
\* status, and the storage and database steps in the order they ran
NoRequest == [route |-> "none", kind |-> "none", resp |-> 0, steps |-> <<>>]

Request(route, kind, resp, steps) ==
    [route |-> route, kind |-> kind, resp |-> resp, steps |-> steps]

InitEntities ==
    /\ docs = [k \in Kinds |-> <<>>]
    /\ bucket = {}
    /\ nextUrl = 1
    /\ last = NoRequest

\* the event an upload leaves in the steps of a request
UploadStep(ok) == IF ok THEN <<"upload_ok">> ELSE <<"upload_failed">>

\* the event a delete leaves in the steps of a request
DeleteStep(outcome) == IF outcome = "none" THEN <<>> ELSE <<outcome>>

\* the event a database write leaves in the steps of a request
DbStep(ok) == IF ok THEN <<"db_ok">> ELSE <<"db_failed">>

\* the status of a write the database took, refused for a duplicate key, or
\* failed
WriteStatus(written, dbOk, success) == IF written THEN success ELSE IF dbOk THEN 400 ELSE 500

\* the slug an update stores: recomputed when the name is sent and differs
RenamedSlug(kind, existing, id, named, name) ==
    IF named /\ name # existing.name THEN UniqueSlug(kind, name, id) ELSE existing.slug

\* a create of a document with one image whose handler logs a failed upload
\* and goes on without image
CreateKeepingOn(kind, name, file, upOk, dbOk) ==
    LET uploaded == file /\ upOk
        imageUrl == IF uploaded THEN nextUrl ELSE NoImage
        finalSlug == UniqueSlug(kind, name, 0)
        inserted == dbOk /\ ~DuplicateKey(kind, finalSlug, 0)
        steps == (IF file THEN UploadStep(upOk) ELSE <<>>) \o DbStep(inserted)
    IN  /\ file => nextUrl <= MaxUploads
        /\ bucket' = Stored(bucket, nextUrl, uploaded)
        /\ nextUrl' = IF uploaded THEN nextUrl + 1 ELSE nextUrl
        /\ docs' = IF inserted
                   THEN [docs EXCEPT ![kind] = Append(@, Doc(name, finalSlug, imageUrl))]
                   ELSE docs
        /\ last' = Request("create", kind, WriteStatus(inserted, dbOk, 201), steps)
        /\ UNCHANGED <<varsOrders, batch, varsCms, probe, now, creating, varsAdmin>>

\* POST /api/categories
CategoryCreate(name, file, upOk, dbOk) == CreateKeepingOn("category", name, file, upOk, dbOk)

\* POST /api/contact
ContactCreate(name, file, upOk, dbOk) == CreateKeepingOn("contact", name, file, upOk, dbOk)

\* POST /api/categories and POST /api/contact with a body that has no name:
\* the upload runs as in any create, then the slug is computed by
\* body.name.toLowerCase(), which throws a TypeError on the missing name; the
\* catch answers what is neither a ValidationError nor a duplicate key with 500
CreateWithoutName(kind, file, upOk) ==
    LET uploaded == file /\ upOk
    IN  /\ kind \in {"category", "contact"}
        /\ file => nextUrl <= MaxUploads
        /\ bucket' = Stored(bucket, nextUrl, uploaded)
        /\ nextUrl' = IF uploaded THEN nextUrl + 1 ELSE nextUrl
        /\ last' = Request("create without name", kind, 500,
                           IF file THEN UploadStep(upOk) ELSE <<>>)
        /\ UNCHANGED <<docs, varsOrders, batch, varsCms, probe, now, creating, varsAdmin>>

\* POST /api/subcategories with a body that has no name: the handler tests
\* name and parent_id before anything else
SubcategoryCreateWithoutName ==
    /\ last' = Request("create without name", "subcategory", 400, <<>>)
    /\ UNCHANGED <<docs, bucket, nextUrl, varsOrders, batch, varsCms, probe, now, creating, varsAdmin>>

\* the answer to an update of a document that does not exist
NotFound(route, kind) ==
    /\ last' = Request(route, kind, 404, <<>>)
    /\ UNCHANGED <<docs, bucket, nextUrl, varsOrders, batch, varsCms, probe, now, creating, varsAdmin>>

\* an update of a document with one image: upload the new image, delete the
\* old one inside a try of its own, then write the record; a failed upload is
\* logged and the update goes on with the image the document has
PutUploadDeleteWrite(kind, id, named, name, file, upOk, delOutcome, dbOk) ==
    LET existing == docs[kind][id]
        uploaded == file /\ upOk
        imageUrl == IF uploaded THEN nextUrl ELSE existing.image
        deleted == IF uploaded /\ existing.image # NoImage THEN delOutcome ELSE "none"
        slug == RenamedSlug(kind, existing, id, named, name)
        written == dbOk /\ ~(slug # existing.slug /\ DuplicateKey(kind, slug, id))
        steps == (IF file THEN UploadStep(upOk) ELSE <<>>) \o DeleteStep(deleted)
                     \o DbStep(written)
    IN  /\ file => nextUrl <= MaxUploads
        /\ bucket' = AfterDelete(Stored(bucket, nextUrl, uploaded), existing.image, deleted)
        /\ nextUrl' = IF uploaded THEN nextUrl + 1 ELSE nextUrl
        /\ docs' = IF written
                   THEN [docs EXCEPT ![kind][id] =
                            [@ EXCEPT !.name = IF named THEN name ELSE @,
                                      !.slug = slug, !.image = imageUrl]]
                   ELSE docs
        /\ last' = Request("put", kind, WriteStatus(written, dbOk, 200), steps)
        /\ UNCHANGED <<varsOrders, batch, varsCms, probe, now, creating, varsAdmin>>

\* PUT /api/categories/:id
CategoryPut(id, named, name, file, upOk, delFails, dbOk) ==
    IF ~Found("category", id) THEN NotFound("put", "category")
    ELSE PutUploadDeleteWrite("category", id, named, name, file, upOk,
             LocalDeleteOutcome(bucket, docs["category"][id].image, delFails), dbOk)

\* PUT /api/contact/:id
ContactPut(id, named, name, file, upOk, delFails, dbOk) ==
    IF ~Found("contact", id) THEN NotFound("put", "contact")
    ELSE PutUploadDeleteWrite("contact", id, named, name, file, upOk,
             R2DeleteOutcome(delFails), dbOk)

\* POST /api/riders: a failed upload answers 400 before anything is written
RiderCreate(name, file, upOk, dbOk) ==
    LET uploaded == file /\ upOk
        inserted == dbOk /\ (file => upOk)
        imageUrl == IF uploaded THEN nextUrl ELSE NoImage
        steps == (IF file THEN UploadStep(upOk) ELSE <<>>)
                     \o (IF file => upOk THEN DbStep(dbOk) ELSE <<>>)
    IN  /\ file => nextUrl <= MaxUploads
        /\ bucket' = Stored(bucket, nextUrl, uploaded)
        /\ nextUrl' = IF uploaded THEN nextUrl + 1 ELSE nextUrl
        /\ docs' = IF inserted
                   THEN [docs EXCEPT !["rider"] = Append(@, Doc(name, <<>>, imageUrl))]
                   ELSE docs
        /\ last' = Request("create", "rider",
                           IF inserted THEN 201 ELSE IF file /\ ~upOk THEN 400 ELSE 500, steps)
        /\ UNCHANGED <<varsOrders, batch, varsCms, probe, now, creating, varsAdmin>>

\* the image block of a rider update: delete the old image, then upload the
\* new one; an error of either step answers 400 and nothing is written.  Of
\* the four image fields of a rider the request carries the profile image.
PutDeleteUploadWrite(id, named, name, file, upOk, delOutcome, dbOk) ==
    LET existing == docs["rider"][id]
        deleted == IF file /\ existing.image # NoImage THEN delOutcome ELSE "none"
        uploading == file /\ deleted # "delete_throws"
        uploaded == uploading /\ upOk
        aborted == file /\ ~uploaded
        written == ~aborted /\ dbOk
        steps == DeleteStep(deleted) \o (IF uploading THEN UploadStep(upOk) ELSE <<>>)
                     \o (IF aborted THEN <<>> ELSE DbStep(dbOk))
    IN  /\ file => nextUrl <= MaxUploads
        /\ bucket' = Stored(AfterDelete(bucket, existing.image, deleted), nextUrl, uploaded)
        /\ nextUrl' = IF uploaded THEN nextUrl + 1 ELSE nextUrl
        /\ docs' = IF written
                   THEN [docs EXCEPT !["rider"][id] =
                            [@ EXCEPT !.name = IF named THEN name ELSE @,
                                      !.image = IF uploaded THEN nextUrl ELSE @]]
                   ELSE docs
        /\ last' = Request("put", "rider",
                           IF written THEN 200 ELSE IF aborted THEN 400 ELSE 500, steps)
        /\ UNCHANGED <<varsOrders, batch, varsCms, probe, now, creating, varsAdmin>>

\* PUT /api/riders/:id on local storage: the delete shares the try of the upload
RiderPut(id, named, name, file, upOk, delFails, dbOk) ==
    IF ~Found("rider", id) THEN NotFound("put", "rider")
    ELSE PutDeleteUploadWrite(id, named, name, file, upOk,
             LocalDeleteOutcome(bucket, docs["rider"][id].image, delFails), dbOk)

\* PUT /api/riders/:id on R2: the delete has a try of its own
RiderPutR2(id, named, name, file, upOk, delFails, dbOk) ==
    IF ~Found("rider", id) THEN NotFound("putR2", "rider")
    ELSE PutDeleteUploadWrite(id, named, name, file, upOk, R2DeleteOutcome(delFails), dbOk)

(***************************************************************************)
(* Products.                                                               *)
(***************************************************************************)
Digits == <<"0", "1", "2", "3", "4", "5", "6", "7", "8", "9">>

DigitValue(c) == (CHOOSE k \in 1..Len(Digits) : Digits[k] = c) - 1

RECURSIVE parseIntFrom(_, _)
\* parseInt of a string of decimal digits, most significant first
parseIntFrom(acc, str) ==
    IF str = <<>> THEN acc ELSE parseIntFrom(acc * 10 + DigitValue(Head(str)), Tail(str))

parseInt(str) == parseIntFrom(0, str)

\* quantity_in_stock as a request carries it: not sent, or a digit string
QuantityTexts == {<<"0">>, <<"2">>}

QuantityFields ==
    {[sent |-> FALSE, text |-> <<>>]} \cup {[sent |-> TRUE, text |-> t] : t \in QuantityTexts}

Absent == "absent"

\* the values of stock_status the derivation produces; requests draw their
\* stock_status from these
StockStatuses == {"in_stock", "out_of_stock"}

\* 'Auto-calculate stock status based on quantity'
DerivedStockStatus(quantity) == IF quantity > 0 THEN "in_stock" ELSE "out_of_stock"

Product(name, slug, quantity, status, images) ==
    [name |-> name, slug |-> slug, quantity_in_stock |-> quantity, stock_status |-> status,
     images |-> images, is_active |-> TRUE]

\* POST /api/products; the request carries at most one image file
ProductCreate(name, qty, status, file, upOk, dbOk) ==
    LET uploaded == file /\ upOk
        imageUrls == IF uploaded THEN {nextUrl} ELSE {}
        quantity == IF qty.sent THEN parseInt(qty.text) ELSE 0
        finalSlug == UniqueSlug("product", name, 0)
        inserted == dbOk /\ ~DuplicateKey("product", finalSlug, 0)
        steps == (IF file THEN UploadStep(upOk) ELSE <<>>) \o DbStep(inserted)
    IN  /\ file => nextUrl <= MaxUploads
        /\ bucket' = Stored(bucket, nextUrl, uploaded)
        /\ nextUrl' = IF uploaded THEN nextUrl + 1 ELSE nextUrl
        /\ docs' = IF inserted
                   THEN [docs EXCEPT !["product"] =
                            Append(@, Product(name, finalSlug, quantity,
                                              DerivedStockStatus(quantity), imageUrls))]
                   ELSE docs
        /\ last' = Request("create", "product", WriteStatus(inserted, dbOk, 201), steps)
        /\ UNCHANGED <<varsOrders, batch, varsCms, probe, now, creating, varsAdmin>>

\* the stock fields an update of one product stores: the status is derived
\* when the quantity is sent, and is the status sent otherwise
StockUpdate(existing, qty, status) ==
    IF qty.sent
    THEN [quantity_in_stock |-> parseInt(qty.text),
          stock_status |-> DerivedStockStatus(parseInt(qty.text))]
    ELSE [quantity_in_stock |-> existing.quantity_in_stock,
          stock_status |-> IF status # Absent THEN status ELSE existing.stock_status]

\* PUT /api/products/:id: delete the images named by deletedImages, upload
\* the new file, then write; the images written are those of existingImages
\* and the upload, whatever the request sent.  existingImages and
\* deletedImages, when sent, list the images the product has.
ProductPut(id, named, name, qty, status, keep, del, file, upOk, delFails, dbOk) ==
    IF ~Found("product", id) THEN NotFound("put", "product")
    ELSE
    LET existing == docs["product"][id]
        deletedImages == IF del THEN existing.images ELSE {}
        existingImages == IF keep THEN existing.images ELSE {}
        deleted == IF deletedImages = {} THEN "none" ELSE R2DeleteOutcome(delFails)
        uploaded == file /\ upOk
        imageUrls == existingImages \cup (IF uploaded THEN {nextUrl} ELSE {})
        stock == StockUpdate(existing, qty, status)
        slug == RenamedSlug("product", existing, id, named, name)
        written == dbOk /\ ~(slug # existing.slug /\ DuplicateKey("product", slug, id))
        steps == DeleteStep(deleted) \o (IF file THEN UploadStep(upOk) ELSE <<>>)
                     \o DbStep(written)
    IN  /\ file => nextUrl <= MaxUploads
        /\ bucket' = Stored(IF deleted = "delete_ok" THEN bucket \ deletedImages ELSE bucket,
                            nextUrl, uploaded)
        /\ nextUrl' = IF uploaded THEN nextUrl + 1 ELSE nextUrl
        /\ docs' = IF written
                   THEN [docs EXCEPT !["product"][id] =
                            [@ EXCEPT !.name = IF named THEN name ELSE @,
                                      !.slug = slug,
                                      !.quantity_in_stock = stock.quantity_in_stock,
                                      !.stock_status = stock.stock_status,
                                      !.images = imageUrls]]
                   ELSE docs
        /\ last' = Request("put", "product", WriteStatus(written, dbOk, 200), steps)
        /\ UNCHANGED <<varsOrders, batch, varsCms, probe, now, creating, varsAdmin>>

\* PATCH /api/products/:id: no files; images, when sent, is the empty list
ProductPatch(id, named, name, qty, status, clear, dbOk) ==
    IF ~Found("product", id) THEN NotFound("patch", "product")
    ELSE
    LET existing == docs["product"][id]
        stock == StockUpdate(existing, qty, status)
        slug == RenamedSlug("product", existing, id, named, name)
        written == dbOk /\ ~(slug # existing.slug /\ DuplicateKey("product", slug, id))
    IN  /\ docs' = IF written
                   THEN [docs EXCEPT !["product"][id] =
                            [@ EXCEPT !.name = IF named THEN name ELSE @,
                                      !.slug = slug,
                                      !.quantity_in_stock = stock.quantity_in_stock,
                                      !.stock_status = stock.stock_status,
                                      !.images = IF clear THEN {} ELSE @]]
                   ELSE docs
        /\ last' = Request("patch", "product", WriteStatus(written, dbOk, 200), DbStep(written))
        /\ UNCHANGED <<bucket, nextUrl, varsOrders, batch, varsCms, probe, now, creating, varsAdmin>>

\* updateData.slug of a bulk update: absent, or a text
SlugFields == {[sent |-> FALSE, text |-> <<>>], [sent |-> TRUE, text |-> <<"x">>]}

\* PATCH /api/products/bulk/update with productIds = [id]: $set of the fields
\* sent, as they were sent, the quantity parsed
ProductBulkUpdate(id, qty, status, slug, dbOk) ==
    LET empty == ~qty.sent /\ status = Absent /\ ~slug.sent
        done == dbOk /\ ~(slug.sent /\ DuplicateKey("product", slug.text, id))
        written == ~empty /\ done /\ Found("product", id)
    IN  /\ docs' = IF written
                   THEN [docs EXCEPT !["product"][id] =
                            [@ EXCEPT !.quantity_in_stock =
                                          IF qty.sent THEN parseInt(qty.text) ELSE @,
                                      !.stock_status = IF status # Absent THEN status ELSE @,
                                      !.slug = IF slug.sent THEN slug.text ELSE @]]
                   ELSE docs
        /\ last' = Request("bulk", "product",
                           IF empty THEN 400 ELSE IF done THEN 200 ELSE 500,
                           IF empty THEN <<>> ELSE DbStep(done))
        /\ UNCHANGED <<bucket, nextUrl, varsOrders, batch, varsCms, probe, now, creating, varsAdmin>>

\* PATCH /api/products/:id/status
PatchProductStatus(id, is_active, dbOk) ==
    LET written == dbOk /\ Found("product", id)
    IN  /\ docs' = IF written THEN [docs EXCEPT !["product"][id].is_active = is_active]
                   ELSE docs
        /\ last' = Request("status", "product",
                           IF written THEN 200 ELSE IF dbOk THEN 404 ELSE 500, DbStep(dbOk))
        /\ UNCHANGED <<bucket, nextUrl, varsOrders, batch, varsCms, probe, now, creating, varsAdmin>>

InitCreating == creating = {}

\* the kinds whose create is followed step by step
SteppedKinds == {"subcategory", "product"}

\* the document a create without file and without stock fields inserts
NewDocument(kind, name, slug) ==
    IF kind = "product" THEN Product(name, slug, 0, DerivedStockStatus(0), {})
    ELSE Doc(name, slug, NoImage)

\* POST /api/subcategories and POST /api/products up to the insert, the request
\* carrying no file: the slug of the name, the lookup findOne({slug}), and the
\* final slug the request will insert
CreateLookup(req, kind, name) ==
    /\ kind \in SteppedKinds
    /\ \A c \in creating : c.req # req
    /\ Cardinality(creating) < MaxCreating
    /\ Len(docs[kind]) + Cardinality(creating) < MaxDocs
    /\ creating' = creating \cup {[req |-> req, kind |-> kind, name |-> name,
                                   slug |-> UniqueSlug(kind, name, 0)]}
    /\ UNCHANGED <<varsOrders, varsEntities, batch, varsCms, probe, now, varsAdmin>>

\* the rest of the create: save() under the unique index on slug, and the
\* answer: 201, 400 for the duplicate key, 500 for any other error
CreateInsert(c, dbOk) ==
    LET inserted == dbOk /\ ~DuplicateKey(c.kind, c.slug, 0)
    IN  /\ c \in creating
        /\ creating' = creating \ {c}
        /\ docs' = IF inserted
                   THEN [docs EXCEPT ![c.kind] = Append(@, NewDocument(c.kind, c.name, c.slug))]
                   ELSE docs
        /\ last' = Request("insert", c.kind, WriteStatus(inserted, dbOk, 201), DbStep(inserted))
        /\ UNCHANGED <<bucket, nextUrl, varsOrders, batch, varsCms, probe, now, varsAdmin>>

(***************************************************************************)
(* R2ImageService.uploadMultipleImages: every file's uploadSingleImage is  *)
(* started, and Promise.all waits for them.                                *)
(***************************************************************************)
NoBatch == [files |-> <<>>, result |-> "none"]

Pending == [state |-> "pending", url |-> NoImage]

InitBatch == batch = NoBatch

\* files.map(file => this.uploadSingleImage(file, ...)): all uploads start
uploadMultipleImages(n) ==
    /\ batch.result = "none"
    /\ batch' = [files |-> [f \in 1..n |-> Pending], result |-> "pending"]
    /\ UNCHANGED <<varsOrders, docs, bucket, nextUrl, last, varsCms, probe, now, creating, varsAdmin>>

\* Promise.all: rejected by the first upload that fails, fulfilled when every
\* upload is; once settled it stays as it is
PromiseAll(files, result) ==
    IF result # "pending" THEN result
    ELSE IF \E f \in 1..Len(files) : files[f].state = "failed" THEN "rejected"
    ELSE IF \A f \in 1..Len(files) : files[f].state = "stored" THEN "resolved"
    ELSE "pending"

\* the PutObjectCommand of file f completes or fails; the uploads of the other
\* files go on whatever became of the call
uploadSingleImage(f, ok) ==
    LET files == [batch.files EXCEPT ![f] = IF ok THEN [state |-> "stored", url |-> nextUrl]
                                             ELSE [state |-> "failed", url |-> NoImage]]
    IN  /\ f \in 1..Len(batch.files)
        /\ batch.files[f].state = "pending"
        /\ batch' = [files |-> files, result |-> PromiseAll(files, batch.result)]
        /\ bucket' = Stored(bucket, nextUrl, ok)
        /\ nextUrl' = IF ok THEN nextUrl + 1 ELSE nextUrl
        /\ UNCHANGED <<varsOrders, docs, last, varsCms, probe, now, creating, varsAdmin>>

(***************************************************************************)
(* CMS: src/routes/cms.js.  The routes write through updateOne, that is    *)
(* findOneAndUpdate with upsert: a record that matches is updated in one   *)
(* step; when none matches, the insert follows the lookup, and no unique   *)
(* index keeps two such inserts apart.                                     *)
(***************************************************************************)
Themes == {"theme2", "theme3"}

CmsRecord(theme, active) == [theme_name |-> theme, isActive |-> active]

\* what the body of PUT /update says about isActive
ActiveInputs == {Absent, "true", "false"}

InitCms ==
    /\ cms = <<>>
    /\ upserts = <<>>

\* the records a filter {theme_name, isActive: true} matches
ActiveOf(theme) == {i \in 1..Len(cms) : cms[i].theme_name = theme /\ cms[i].isActive}

\* findOneAndUpdate(filter, update, {new: true, upsert: true}): the first
\* match is replaced by its update; without match the record to insert is
\* on its way
updateOne(theme, updated) ==
    IF ActiveOf(theme) # {}
    THEN /\ cms' = [cms EXCEPT ![CHOOSE i \in ActiveOf(theme) : \A j \in ActiveOf(theme) : i <= j]
                                   = updated]
         /\ UNCHANGED upserts
    ELSE /\ Len(upserts) < MaxUpserts
         /\ upserts' = Append(upserts, updated)
         /\ UNCHANGED cms

\* POST /cms/save without files: theme_name and isActive: true are written
\* whatever the body says
CmsSave(theme) ==
    /\ updateOne(theme, CmsRecord(theme, TRUE))
    /\ UNCHANGED <<varsOrders, varsEntities, batch, probe, now, creating, varsAdmin>>

\* PUT /cms/update/:themeName: the body is written as it is
CmsUpdate(theme, bodyTheme, bodyActive) ==
    /\ updateOne(theme, CmsRecord(IF bodyTheme = Absent THEN theme ELSE bodyTheme,
                                  bodyActive # "false"))
    /\ UNCHANGED <<varsOrders, varsEntities, batch, probe, now, creating, varsAdmin>>

\* the insert of an upsert that matched nothing
CmsInsert(i) ==
    /\ i \in 1..Len(upserts)
    /\ Len(cms) < MaxCmsDocs
    /\ cms' = Append(cms, upserts[i])
    /\ upserts' = [j \in 1..(Len(upserts) - 1) |-> IF j < i THEN upserts[j] ELSE upserts[j + 1]]
    /\ UNCHANGED <<varsOrders, varsEntities, batch, probe, now, creating, varsAdmin>>

\* POST /cms/reset: updateMany({}, {isActive: false})
CmsReset ==
    /\ cms' = [i \in 1..Len(cms) |-> [cms[i] EXCEPT !.isActive = FALSE]]
    /\ UNCHANGED <<upserts, varsOrders, varsEntities, batch, probe, now, creating, varsAdmin>>

(***************************************************************************)
(* Middleware and read-only routes answer from the request alone.          *)
(***************************************************************************)
NoProbe == [op |-> "none"]

InitProbe == probe = NoProbe

\* the keys a token may be signed with: the JWT_SECRET of the server and
\* another one
SigningKeys == {"JWT_SECRET", "other"}

\* what a cookie or a header may hold for a token: nothing, the empty string,
\* text that is no token, or a token signed with a key and expiring at a time
Tokens ==
    {[kind |-> k, key |-> "", exp |-> 0] : k \in {"undefined", "empty", "garbage"}}
        \cup {[kind |-> "jwt", key |-> k, exp |-> e] : k \in SigningKeys, e \in 1..(MaxClock + 1)}

Undefined == [kind |-> "undefined", key |-> "", exp |-> 0]

\* !token
Falsy(token) == token.kind \in {"undefined", "empty"}

\* the Authorization header as the words its spaces separate; no header is
\* the empty sequence
Headers ==
    {<<>>} \cup {<<scheme, t>> : scheme \in {"Bearer", "Basic"}, t \in Tokens \ {Undefined}}

\* authHeader && authHeader.startsWith('Bearer ') ? authHeader.split(' ')[1]
BearerToken(header) ==
    IF Len(header) >= 2 /\ header[1] = "Bearer" THEN header[2] ELSE Undefined

\* jwt.verify(token, JWT_SECRET): the error it throws, or ok
jwtVerify(token, at) ==
    IF token.kind # "jwt" \/ token.key # "JWT_SECRET" THEN "JsonWebTokenError"
    ELSE IF at >= token.exp THEN "TokenExpiredError"
    ELSE "ok"

verifyTokenHeaderFirst(cookie, header, secretSet, at) ==
    LET token == IF ~Falsy(BearerToken(header)) THEN BearerToken(header) ELSE cookie
    IN  IF Falsy(token) THEN 401
        ELSE IF ~secretSet THEN 500
        ELSE IF jwtVerify(token, at) = "ok" THEN 0
        ELSE 401

\* verifyToken(req, res, next): the status it answers, 0 when it calls next()
verifyTokenStatus(cookie, header, secretSet, at) ==
    LET token == IF ~Falsy(cookie) THEN cookie ELSE BearerToken(header)
    IN  IF Falsy(token) THEN 401
        ELSE IF ~secretSet THEN 500
        ELSE IF jwtVerify(token, at) = "ok" THEN 0
        ELSE 401

\* a request to a route guarded by verifyToken
verifyToken(cookie, header, secretSet) ==
    /\ probe' = [op |-> "verifyToken", cookie |-> cookie, header |-> header,
                 secretSet |-> secretSet, at |-> now,
                 status |-> verifyTokenStatus(cookie, header, secretSet, now),
                 next |-> verifyTokenStatus(cookie, header, secretSet, now) = 0]
    /\ UNCHANGED <<varsOrders, varsEntities, batch, varsCms, now, creating, varsAdmin>>

\* req.query.page and req.query.limit as a request carries them: not sent, or
\* a string of decimal digits
PageTexts == {<<"1">>, <<"2">>, <<"3">>, <<"4">>}

LimitTexts == {<<"1">>, <<"3">>, <<"1", "0">>}

QueryFields(texts) ==
    {[sent |-> FALSE, text |-> <<>>]} \cup {[sent |-> TRUE, text |-> t] : t \in texts}

\* const { page = 1, limit = 20 } = req.query
DefaultPage == 1

DefaultOrderLimit == 20

DefaultProductLimit == 12

\* parseInt(page), parseInt(limit) with the default of the destructuring
QueryNumber(field, default) == IF field.sent THEN parseInt(field.text) ELSE default

SkipFromZero(page, limit) == page * limit

\* const skip = (parseInt(page) - 1) * parseInt(limit)
Skip(page, limit) == (page - 1) * limit

\* the documents matching the filter, in the order of the sort
Matching(n) == [i \in 1..n |-> i]

\* findAll: Model.find(query).sort().skip(options.skip).limit(options.limit);
\* skip and limit are applied when they are not 0
findAll(all, skip, limit) ==
    LET from == IF skip # 0 THEN skip + 1 ELSE 1
        to == IF limit # 0 /\ from + limit - 1 < Len(all) THEN from + limit - 1 ELSE Len(all)
    IN  SubSeq(all, from, to)

\* Math.ceil(total / limit) for limit > 0
MathCeil(total, limit) == IF total % limit = 0 THEN total \div limit ELSE (total \div limit) + 1

\* the body shared by the list routes: n documents match the filter
ListRoute(op, n, page, limit) ==
    LET found == findAll(Matching(n), Skip(page, limit), limit)
        total == n
        totalPages == MathCeil(total, limit)
    IN  /\ probe' = [op |-> op, n |-> n, page |-> page, limit |-> limit,
                     found |-> found, totalPages |-> totalPages, total |-> total,
                     hasNext |-> page < totalPages, hasPrev |-> page > 1]
        /\ UNCHANGED <<varsOrders, varsEntities, batch, varsCms, now, creating, varsAdmin>>

\* GET /api/orders
GetOrders(n, page, limit) ==
    ListRoute("orders", n, QueryNumber(page, DefaultPage), QueryNumber(limit, DefaultOrderLimit))

\* GET /api/products
GetProducts(n, page, limit) ==
    ListRoute("products", n, QueryNumber(page, DefaultPage), QueryNumber(limit, DefaultProductLimit))

(***************************************************************************)
(* Errors: what the catch blocks of the routes and the error handler of    *)
(* src/index.js answer.                                                    *)
(***************************************************************************)
HexChars == {"0", "1", "2", "3", "4", "5", "6", "7", "8", "9", "a", "b", "c", "d", "e", "f"}

\* the length of the hexadecimal text of an ObjectId
ObjectIdLength == 24

\* the cast of req.params.id to ObjectId succeeds
IsObjectId(id) == Len(id) = ObjectIdLength /\ \A i \in 1..Len(id) : id[i] \in HexChars

\* the ids a request may carry: that of a stored document, that of no
\* document, and two texts that are no ObjectId
StoredId == [i \in 1..ObjectIdLength |-> "a"]

MissingId == [i \in 1..ObjectIdLength |-> "0"]

RequestIds == {StoredId, MissingId, <<"a", "b", "c">>, [i \in 1..ObjectIdLength |-> "z"]}

\* process.env.NODE_ENV
NodeEnvs == {"production", "development", "unset"}

NoError == [name |-> "none", code |-> 0]

\* the errors a database call throws
CastError == [name |-> "CastError", code |-> 0]

ValidationError == [name |-> "ValidationError", code |-> 0]

DuplicateKeyError == [name |-> "MongoServerError", code |-> 11000]

NetworkError == [name |-> "MongoNetworkError", code |-> 0]

\* a response: its status, and whether its body carries error.message
Answer(status, exposes) == [status |-> status, exposes |-> exposes]

\* catch (error) { res.status(500).json({..., error: error.message}) }
CatchPlain(error, env) == Answer(500, TRUE)

\* the catch of the product PUT and PATCH
CatchProductWrite(error, env) ==
    IF error.name = "ValidationError" THEN Answer(400, TRUE)
    ELSE IF error.name = "CastError" THEN Answer(400, FALSE)
    ELSE IF error.code = 11000 THEN Answer(400, FALSE)
    ELSE Answer(500, env = "development")

\* the error-handling middleware of the application
GlobalErrorHandler(err, env) ==
    IF err.name = "ValidationError" THEN Answer(400, TRUE)
    ELSE IF err.name = "CastError" THEN Answer(400, FALSE)
    ELSE Answer(500, env # "production")

\* the routes that take an :id, by how their catch answers
ProductWriteEndpoints == {"PUT /products/:id", "PATCH /products/:id"}

PlainCatchEndpoints ==
    {"GET /products/:id", "DELETE /products/:id", "PATCH /products/:id/status",
     "GET /orders/:id", "PATCH /orders/:id/status", "PATCH /orders/:id/dispatch",
     "PATCH /orders/:id/cancel", "DELETE /orders/:id"}

IdEndpoints == ProductWriteEndpoints \cup PlainCatchEndpoints

\* findById and findByIdAndUpdate: the error they throw, if any
findByIdError(id, dbFails) ==
    IF ~IsObjectId(id) THEN CastError
    ELSE IF dbFails THEN NetworkError
    ELSE NoError

\* a request to a route that takes an :id, with a body the route accepts: the
\* lookup of the id, and the catch of the route when the lookup throws
RequestById(endpoint, id, dbFails, env) ==
    LET error == findByIdError(id, dbFails)
        answer == IF error = NoError
                  THEN Answer(IF id = StoredId THEN 200 ELSE 404, FALSE)
                  ELSE IF endpoint \in ProductWriteEndpoints
                  THEN CatchProductWrite(error, env)
                  ELSE CatchPlain(error, env)
    IN  /\ probe' = [op |-> "byId", endpoint |-> endpoint, id |-> id, env |-> env,
                     error |-> error.name, status |-> answer.status,
                     exposes |-> answer.exposes]
        /\ UNCHANGED <<varsOrders, varsEntities, batch, varsCms, now, creating, varsAdmin>>

\* an error handed to next(err)
NextError(err, env) ==
    /\ probe' = [op |-> "next(err)", endpoint |-> "none", id |-> <<>>, env |-> env,
                 error |-> err.name, status |-> GlobalErrorHandler(err, env).status,
                 exposes |-> GlobalErrorHandler(err, env).exposes]
    /\ UNCHANGED <<varsOrders, varsEntities, batch, varsCms, now, creating, varsAdmin>>

(***************************************************************************)
(* Admin accounts, login and the password reset flow: src/routes/auth.js.  *)
(* In these routes one step of the clock stands for ten minutes.           *)
(***************************************************************************)
\* the clock of the reset flow stops here
MaxResetClock == 4

\* reset tokens crypto.randomBytes may produce in one run
MaxTokens == 2

\* the largest value reset_attempts is followed to
MaxAttempts == 6

\* Date.now() + 10 * 60 * 1000, in steps of the clock
CodeLifetime == 1

\* Date.now() + 30 * 60 * 1000, in steps of the clock
TokenLifetime == 3

\* expiresIn: '24h', in steps of the clock
LoginTokenLifetime == 144

\* admin.reset_attempts >= 5
AttemptLimit == 5

\* newPassword.length < 6
MinPasswordLength == 6

\* a date field holding null
NoDate == -1

\* reset_token: ''
NoToken == 0

\* an email address: its text in lower case, and whether the request wrote
\* it in capitals
Email(name, upper) == [name |-> name, upper |-> upper]

\* req.body.email not sent
NoEmail == Email("", FALSE)

\* the address of the stored admin account
AdminEmails == {Email("admin@shop.com", FALSE)}

RequestEmails ==
    {NoEmail} \cup {Email(n, u) : n \in {"admin@shop.com", "nobody@shop.com"}, u \in BOOLEAN}

\* email.toLowerCase()
emailToLowerCase(email) == [email EXCEPT !.upper = FALSE]

\* the codes generateVerificationCode(6).toUpperCase() may return
Codes == {"K7Q2M9", "4TX8RB"}

\* a code as a request carries it: its letters in capitals, whether the
\* request wrote them in lower case, and whether spaces surround them
Code(text, lower, padded) == [text |-> text, lower |-> lower, padded |-> padded]

\* req.body.code not sent
NoCode == Code("", FALSE, FALSE)

RequestCodes == {NoCode} \cup {Code(t, l, p) : t \in Codes, l \in BOOLEAN, p \in BOOLEAN}

\* code.trim().toUpperCase()
trimToUpperCase(code) == Code(code.text, FALSE, FALSE)

\* a password: its text and its length
Password(text, length) == [text |-> text, length |-> length]

\* req.body.password or req.body.newPassword not sent
NoPassword == Password("", 0)

Passwords == {NoPassword, Password("abc", 3), Password("initial", 7), Password("secret1", 7)}

\* bcrypt.hash(newPassword, saltRounds)
bcryptHash(password) == [bcrypt |-> password.text]

\* the reset tokens a request may carry: none, or one crypto.randomBytes may
\* produce
ResetTokens == 0..MaxTokens

\* an admin account without a reset under way
NewAdmin ==
    [password |-> bcryptHash(Password("initial", 7)), isReset |-> FALSE,
     reset_code |-> "", reset_code_expires |-> NoDate, reset_attempts |-> 0,
     reset_token |-> NoToken, lastLogin |-> NoDate, lastPasswordChange |-> NoDate]

NoHistory == [wrongCodes |-> 0, spent |-> {}, superseded |-> {}]

InitAdmins ==
    /\ admins = [e \in AdminEmails |-> NewAdmin]
    /\ minted = 0
    /\ history = [e \in AdminEmails |-> NoHistory]

\* the answer of a route of the reset flow
ResetAnswer(op, status, message, resetToken) ==
    [op |-> op, status |-> status, message |-> message, resetToken |-> resetToken]

\* $set: {reset_code, reset_code_expires, isReset: true, reset_attempts: 0}
SetResetCode(admin, code) ==
    [admin EXCEPT !.reset_code = code, !.reset_code_expires = now + CodeLifetime,
                  !.isReset = TRUE, !.reset_attempts = 0]

\* a new code starts a new count of wrong codes, and the token of the
\* account, if it has one, is from before this code
NewCodeHistory(h, admin) ==
    [h EXCEPT !.wrongCodes = 0,
              !.superseded = IF admin.reset_token = NoToken THEN @
                             ELSE @ \cup {admin.reset_token}]

\* the message of the 200 answers of the two routes that look the admin up
\* before they send a code
CodeMessages ==
    [op \in {"forgot-password", "resend-reset-code"} |->
        IF op = "forgot-password"
        THEN [unknown |-> "If the email exists, a verification code has been sent",
              sent |-> "Verification code sent to your email",
              failed |-> "Failed to process password reset request"]
        ELSE [unknown |-> "If the email exists, a new verification code has been sent",
              sent |-> "New verification code sent to your email",
              failed |-> "Failed to resend verification code"]]

\* what fails in a request: nothing, a database call, or the mail transport
CodeFaults == {"none", "findOne", "mail", "updateOne"}

\* the answer of POST /forgot-password and POST /resend-reset-code
CodeAnswer(op, email, fault) ==
    IF email = NoEmail THEN ResetAnswer(op, 400, "Email is required", NoToken)
    ELSE IF fault = "findOne" THEN ResetAnswer(op, 500, CodeMessages[op].failed, NoToken)
    ELSE IF emailToLowerCase(email) \notin AdminEmails
    THEN ResetAnswer(op, 200, CodeMessages[op].unknown, NoToken)
    ELSE IF fault # "none" THEN ResetAnswer(op, 500, CodeMessages[op].failed, NoToken)
    ELSE ResetAnswer(op, 200, CodeMessages[op].sent, NoToken)

\* POST /forgot-password and POST /resend-reset-code: findOne, the mail with
\* the code, updateOne, and the answer
RequestCode(op, email, code, fault) ==
    LET e == emailToLowerCase(email)
        sent == email # NoEmail /\ e \in AdminEmails /\ fault = "none"
    IN  /\ admins' = IF sent THEN [admins EXCEPT ![e] = SetResetCode(@, code)] ELSE admins
        /\ history' = IF sent THEN [history EXCEPT ![e] = NewCodeHistory(@, admins[e])]
                      ELSE history
        /\ probe' = CodeAnswer(op, email, fault)
        /\ UNCHANGED <<varsOrders, varsEntities, batch, varsCms, now, creating, minted>>

\* POST /forgot-password
ForgotPassword(email, code, fault) == RequestCode("forgot-password", email, code, fault)

\* POST /resend-reset-code
ResendResetCode(email, code, fault) == RequestCode("resend-reset-code", email, code, fault)

\* POST /send-verification: the mail with the code goes out before any
\* database call, and updateOne writes the code to the admin if there is one
SendVerification(email, code, fault) ==
    LET e == emailToLowerCase(email)
        sent == email # NoEmail /\ e \in AdminEmails /\ fault = "none"
        answer ==
            IF email = NoEmail
            THEN ResetAnswer("send-verification", 400, "Email is required", NoToken)
            ELSE IF fault # "none"
            THEN ResetAnswer("send-verification", 500, "Failed to send verification email", NoToken)
            ELSE ResetAnswer("send-verification", 200, "Verification code sent to your email", NoToken)
    IN  /\ fault \in {"none", "mail", "updateOne"}
        /\ admins' = IF sent THEN [admins EXCEPT ![e] = SetResetCode(@, code)] ELSE admins
        /\ history' = IF sent THEN [history EXCEPT ![e] = NewCodeHistory(@, admins[e])]
                      ELSE history
        /\ probe' = answer
        /\ UNCHANGED <<varsOrders, varsEntities, batch, varsCms, now, creating, minted>>

\* admin.reset_code_expires < new Date(); null compares as the date 0
Expired(admin) == admin.reset_code_expires = NoDate \/ admin.reset_code_expires < now

\* Admin.findOne({email, reset_code, isReset: true}) finds the admin
CodeMatches(e, code) ==
    /\ e \in AdminEmails
    /\ admins[e].reset_code = code.text
    /\ admins[e].isReset

\* the status and message verify-reset-code answers when nothing throws
VerifyAnswer(e, code) ==
    IF ~CodeMatches(e, code) THEN [status |-> 400, message |-> "Invalid verification code"]
    ELSE IF Expired(admins[e])
    THEN [status |-> 400, message |-> "Verification code has expired. Please request a new one."]
    ELSE IF admins[e].reset_attempts >= AttemptLimit
    THEN [status |-> 400, message |-> "Too many invalid attempts. Please request a new code."]
    ELSE [status |-> 200, message |-> "Code verified successfully"]

\* a wrong code for the email of an admin
WrongCode(email, code) ==
    /\ emailToLowerCase(email) \in AdminEmails
    /\ code # NoCode
    /\ trimToUpperCase(code).text # admins[emailToLowerCase(email)].reset_code

VerifyFaults == {"none", "findOne", "updateOne"}

\* POST /verify-reset-code: findOne with the code, the checks of expiry and
\* attempts, the token and updateOne; the catch block adds one to
\* reset_attempts of the admin the same filter finds, when its own updateOne
\* goes through (catchOk)
VerifyResetCode(email, code, fault, catchOk) ==
    LET op == "verify-reset-code"
        e == emailToLowerCase(email)
        c == trimToUpperCase(code)
        missing == email = NoEmail \/ code = NoCode
        passes == ~missing /\ fault # "findOne" /\ VerifyAnswer(e, c).status = 200
        thrown == ~missing /\ (fault = "findOne" \/ (fault = "updateOne" /\ passes))
        verified == passes /\ ~thrown
        counted == thrown /\ catchOk /\ CodeMatches(e, c)
        wrong == WrongCode(email, code)
    IN  /\ verified => minted < MaxTokens
        /\ counted => admins[e].reset_attempts < MaxAttempts
        /\ admins' = IF verified
                     THEN [admins EXCEPT ![e].reset_code_expires = now + TokenLifetime,
                                         ![e].reset_token = minted + 1]
                     ELSE IF counted
                     THEN [admins EXCEPT ![e].reset_attempts = @ + 1]
                     ELSE admins
        /\ minted' = IF verified THEN minted + 1 ELSE minted
        /\ history' = IF wrong /\ history[e].wrongCodes < AttemptLimit
                      THEN [history EXCEPT ![e].wrongCodes = @ + 1]
                      ELSE history
        /\ probe' = IF missing
                    THEN ResetAnswer(op, 400, "Email and verification code are required", NoToken)
                    ELSE IF thrown THEN ResetAnswer(op, 500, "Failed to verify code", NoToken)
                    ELSE ResetAnswer(op, VerifyAnswer(e, c).status, VerifyAnswer(e, c).message,
                                     IF verified THEN minted + 1 ELSE NoToken)
        /\ UNCHANGED <<varsOrders, varsEntities, batch, varsCms, now, creating>>

\* Admin.findOne({reset_token: token, isReset: true})
TokenHolders(token) ==
    {e \in AdminEmails : admins[e].reset_token = token /\ admins[e].isReset}

ResetKeepingToken(admin, newPassword) ==
    [admin EXCEPT !.password = bcryptHash(newPassword), !.lastPasswordChange = now,
                  !.reset_code = "", !.reset_attempts = 0]

\* the fields updateById writes when the password is reset
ClearedReset(admin, newPassword) ==
    [admin EXCEPT !.password = bcryptHash(newPassword), !.lastPasswordChange = now,
                  !.isReset = FALSE, !.reset_code = "", !.reset_token = NoToken,
                  !.reset_code_expires = NoDate, !.reset_attempts = 0]

ResetFaults == {"none", "findOne", "updateById"}

\* POST /reset-password
ResetPassword(token, newPassword, fault) ==
    LET op == "reset-password"
        holders == TokenHolders(token)
        e == CHOOSE h \in holders : TRUE
        status ==
            IF token = NoToken \/ newPassword = NoPassword THEN 400
            ELSE IF newPassword.length < MinPasswordLength THEN 400
            ELSE IF fault = "findOne" THEN 500
            ELSE IF holders = {} THEN 400
            ELSE IF Expired(admins[e]) THEN 400
            ELSE IF fault = "updateById" THEN 500
            ELSE 200
        message ==
            IF token = NoToken \/ newPassword = NoPassword
            THEN "Reset token and new password are required"
            ELSE IF newPassword.length < MinPasswordLength
            THEN "Password must be at least 6 characters long"
            ELSE IF fault = "findOne" THEN "Failed to reset password"
            ELSE IF holders = {} THEN "Invalid or expired reset token"
            ELSE IF Expired(admins[e]) THEN "Reset token has expired. Please start over."
            ELSE IF fault = "updateById" THEN "Failed to reset password"
            ELSE "Password reset successfully"
    IN  /\ admins' = IF status = 200 THEN [admins EXCEPT ![e] = ClearedReset(@, newPassword)]
                     ELSE admins
        /\ history' = IF status = 200 THEN [history EXCEPT ![e].spent = @ \cup {token}]
                      ELSE history
        /\ probe' = [op |-> op, status |-> status, message |-> message, token |-> token]
        /\ UNCHANGED <<varsOrders, varsEntities, batch, varsCms, now, creating, minted>>

LoginFaults == {"none", "findOne", "save"}

\* jwt.sign({id, username, role, email}, JWT_SECRET, {expiresIn: '24h'})
jwtSign(at) == [kind |-> "jwt", key |-> "JWT_SECRET", exp |-> at + LoginTokenLifetime]

\* POST /login: findOne({email}) with the email as the request wrote it, the
\* token, admin.save() with lastLogin, the cookie and the answer
Login(email, password, secretSet, fault) ==
    LET found == email \in AdminEmails
        status ==
            IF email = NoEmail \/ password = NoPassword THEN 400
            ELSE IF fault = "findOne" THEN 500
            ELSE IF ~found THEN 401
            ELSE IF ~secretSet THEN 500
            ELSE IF fault = "save" THEN 500
            ELSE 200
        error ==
            IF email = NoEmail \/ password = NoPassword THEN "Email and password are required"
            ELSE IF fault = "findOne" THEN "Login failed"
            ELSE IF ~found THEN "Invalid credentials"
            ELSE IF ~secretSet THEN "Server configuration error"
            ELSE IF fault = "save" THEN "Login failed"
            ELSE ""
        token == IF status = 200 THEN jwtSign(now) ELSE Undefined
    IN  /\ admins' = IF status = 200 THEN [admins EXCEPT ![email].lastLogin = now] ELSE admins
        /\ probe' = [op |-> "login", status |-> status, error |-> error,
                     token |-> token, cookie |-> token]
        /\ UNCHANGED <<varsOrders, varsEntities, batch, varsCms, now, creating, minted, history>>

\* ten minutes pass
Elapse ==
    /\ now < MaxResetClock
    /\ now' = now + 1
    /\ UNCHANGED <<varsOrders, varsEntities, batch, varsCms, probe, creating, varsAdmin>>

\* the millisecond clock behind new Date() and Date.now()
Tick ==
    /\ now < MaxClock
    /\ now' = now + 1
    /\ UNCHANGED <<varsOrders, varsEntities, batch, varsCms, probe, creating, varsAdmin>>

vars == <<orders, orderCreated, writes, ores, now, docs, bucket, nextUrl, last, batch,
         cms, upserts, probe, creating, admins, minted, history>>

Init == InitOrders /\ InitEntities /\ InitBatch /\ InitCms /\ InitProbe /\ InitCreating /\ InitAdmins

NextOrders ==
    \/ Tick
    \/ \E valid \in BOOLEAN : CreateOrder(valid)
    \/ \E id \in AddressableOrderIds, s \in BodyStatuses : PatchOrderStatus(id, s)
    \/ \E id \in AddressableOrderIds, s \in BodyStatuses : AdminPatchOrderStatus(id, s)
    \/ \E id \in AddressableOrderIds, t \in Trackings : DispatchOrder(id, t)
    \/ \E id \in AddressableOrderIds, x \in Reasons : CancelOrder(id, x)
    \/ \E w \in writes : updateById(w)
    \/ \E id \in AddressableOrderIds : DeleteOrder(id)

SpecOrders == Init /\ [][NextOrders]_vars

\* the order routes called on the order that exists, with statuses the
\* status routes accept: the requests that can write a status
NextOrderWrites ==
    \/ Tick
    \/ CreateOrder(TRUE)
    \/ \E s \in Statuses : PatchOrderStatus("o1", s)
    \/ \E s \in Statuses : AdminPatchOrderStatus("o1", s)
    \/ \E t \in Trackings : DispatchOrder("o1", t)
    \/ \E x \in Reasons : CancelOrder("o1", x)
    \/ \E w \in writes : updateById(w)
    \/ DeleteOrder("o1")

SpecOrderWrites == Init /\ [][NextOrderWrites]_vars

(***************************************************************************)
(* Properties of the order routes.                                         *)
(***************************************************************************)
\* the ids an entity request may name: that of the first document of a
\* collection and one past it
DocIds == {1, 2}

\* Every update reads and writes the one document its :id names, so the
\* entity runs follow one document: the first one created.
FollowOne == TotalDocs = 0

\* what a request says about the name: nothing, or a name
NameInputs == {<<FALSE, <<>>>>} \cup {<<TRUE, n>> : n \in Names}

\* a request without file, or with a file and the outcomes of the upload and
\* of the delete of the old image: <<file, upOk, delFails>>
FileInputs == {<<FALSE, FALSE, FALSE>>} \cup {<<TRUE, u, d>> : u, d \in BOOLEAN}

\* the stock fields a request carries: <<quantity_in_stock, stock_status>>
StockInputs == QuantityFields \X (StockStatuses \cup {Absent})

\* existingImages and deletedImages of a product update: <<keep, del>>
ImageListInputs == BOOLEAN \X BOOLEAN

\* A request for a document that does not exist is answered 404 whatever it
\* carries, so one payload stands for all of them.
PayloadsFor(kind, id, payloads) ==
    IF Found(kind, id) THEN payloads ELSE {CHOOSE x \in payloads : TRUE}

\* the payloads of an update of a document with one image
PutInputs == NameInputs \X FileInputs \X BOOLEAN

ProductPutInputs == NameInputs \X StockInputs \X ImageListInputs \X FileInputs \X BOOLEAN

ProductPatchInputs == NameInputs \X StockInputs \X BOOLEAN \X BOOLEAN

BulkInputs == StockInputs \X SlugFields \X BOOLEAN

\* the bulk updates that send stock fields only
StockBulkInputs == {r \in BulkInputs : ~r[2].sent}

\* a request that sends no quantity_in_stock
NoQuantity == CHOOSE q \in QuantityFields : ~q.sent

NextEntities ==
    \/ \E name \in Names, f \in FileInputs, dbOk \in BOOLEAN :
           FollowOne /\ CategoryCreate(name, f[1], f[2], dbOk)
    \/ \E name \in Names, f \in FileInputs, dbOk \in BOOLEAN :
           FollowOne /\ ContactCreate(name, f[1], f[2], dbOk)
    \/ \E name \in Names, f \in FileInputs, dbOk \in BOOLEAN :
           FollowOne /\ RiderCreate(name, f[1], f[2], dbOk)
    \/ \E id \in DocIds : \E r \in PayloadsFor("category", id, PutInputs) :
           CategoryPut(id, r[1][1], r[1][2], r[2][1], r[2][2], r[2][3], r[3])
    \/ \E id \in DocIds : \E r \in PayloadsFor("contact", id, PutInputs) :
           ContactPut(id, r[1][1], r[1][2], r[2][1], r[2][2], r[2][3], r[3])
    \/ \E id \in DocIds : \E r \in PayloadsFor("rider", id, PutInputs) :
           RiderPut(id, r[1][1], r[1][2], r[2][1], r[2][2], r[2][3], r[3])
    \/ \E id \in DocIds : \E r \in PayloadsFor("rider", id, PutInputs) :
           RiderPutR2(id, r[1][1], r[1][2], r[2][1], r[2][2], r[2][3], r[3])
    \/ \E name \in Names, k \in StockInputs, f \in FileInputs, dbOk \in BOOLEAN :
           FollowOne /\ ProductCreate(name, k[1], k[2], f[1], f[2], dbOk)
    \/ \E id \in DocIds : \E r \in PayloadsFor("product", id, ProductPutInputs) :
           ProductPut(id, r[1][1], r[1][2], r[2][1], r[2][2], r[3][1], r[3][2],
                      r[4][1], r[4][2], r[4][3], r[5])
    \/ \E id \in DocIds : \E r \in PayloadsFor("product", id, ProductPatchInputs) :
           ProductPatch(id, r[1][1], r[1][2], r[2][1], r[2][2], r[3], r[4])
    \/ \E id \in DocIds : \E r \in PayloadsFor("product", id, StockBulkInputs) :
           ProductBulkUpdate(id, r[1][1], r[1][2], r[2], r[3])
    \/ \E id \in DocIds, is_active, dbOk \in BOOLEAN : PatchProductStatus(id, is_active, dbOk)

SpecEntities == Init /\ [][NextEntities]_vars

\* the product routes that write name and slug, the bulk update with every
\* payload
NextProductSlugs ==
    \/ \E name \in Names, dbOk \in BOOLEAN :
           FollowOne /\ ProductCreate(name, NoQuantity, Absent, FALSE, FALSE, dbOk)
    \/ \E id \in DocIds : \E r \in PayloadsFor("product", id, NameInputs \X BOOLEAN) :
           ProductPatch(id, r[1][1], r[1][2], NoQuantity, Absent, FALSE, r[2])
    \/ \E id \in DocIds : \E r \in PayloadsFor("product", id, BulkInputs) :
           ProductBulkUpdate(id, r[1][1], r[1][2], r[2], r[3])
    \/ Tick

SpecProductSlugs == Init /\ [][NextProductSlugs]_vars

NextBatch ==
    \/ \E n \in 1..MaxFiles : uploadMultipleImages(n)
    \/ \E f \in 1..MaxFiles, ok \in BOOLEAN : uploadSingleImage(f, ok)

SpecBatch == Init /\ [][NextBatch]_vars

\* creates of the same collections that carry no file, the database up
NextSlug ==
    \/ Tick
    \/ \E name \in Names : TotalDocs < MaxDocs /\ CategoryCreate(name, FALSE, FALSE, TRUE)
    \/ \E name \in Names : TotalDocs < MaxDocs /\ ContactCreate(name, FALSE, FALSE, TRUE)
    \/ \E name \in Names, k \in StockInputs :
           TotalDocs < MaxDocs /\ ProductCreate(name, k[1], k[2], FALSE, FALSE, TRUE)

SpecSlug == Init /\ [][NextSlug]_vars

NextCms ==
    \/ \E theme \in Themes : CmsSave(theme)
    \/ \E theme \in Themes, bodyTheme \in Themes \cup {Absent}, bodyActive \in ActiveInputs :
           CmsUpdate(theme, bodyTheme, bodyActive)
    \/ \E i \in 1..MaxUpserts : CmsInsert(i)
    \/ CmsReset

SpecCms == Init /\ [][NextCms]_vars

NextAuth ==
    \/ Tick
    \/ \E cookie \in Tokens, header \in Headers, secretSet \in BOOLEAN :
           verifyToken(cookie, header, secretSet)

SpecAuth == Init /\ [][NextAuth]_vars

NextList ==
    \/ \E n \in 0..MaxListed, page \in QueryFields(PageTexts), limit \in QueryFields(LimitTexts) :
           GetOrders(n, page, limit)
    \/ \E n \in 0..MaxListed, page \in QueryFields(PageTexts), limit \in QueryFields(LimitTexts) :
           GetProducts(n, page, limit)

SpecList == Init /\ [][NextList]_vars

NextErrors ==
    \/ \E endpoint \in IdEndpoints, id \in RequestIds, dbFails \in BOOLEAN, env \in NodeEnvs :
           RequestById(endpoint, id, dbFails, env)
    \/ \E err \in {CastError, ValidationError, DuplicateKeyError, NetworkError}, env \in NodeEnvs :
           NextError(err, env)

SpecErrors == Init /\ [][NextErrors]_vars

\* the creates of categories, contact pages and subcategories, with and
\* without name, and of orders, with and without the fields the route checks
NextCreates ==
    \/ \E name \in Names, f \in FileInputs, dbOk \in BOOLEAN :
           TotalDocs < MaxDocs /\ CategoryCreate(name, f[1], f[2], dbOk)
    \/ \E name \in Names, f \in FileInputs, dbOk \in BOOLEAN :
           TotalDocs < MaxDocs /\ ContactCreate(name, f[1], f[2], dbOk)
    \/ \E kind \in {"category", "contact"}, f \in FileInputs : CreateWithoutName(kind, f[1], f[2])
    \/ SubcategoryCreateWithoutName
    \/ \E valid \in BOOLEAN : CreateOrder(valid)

SpecCreates == Init /\ [][NextCreates]_vars

\* the order routes under requests with and without a valid token
NextOrderRequests ==
    \/ Tick
    \/ \E a, valid \in BOOLEAN : CreateOrderRequest(a, valid)
    \/ \E a \in BOOLEAN, s \in Statuses : AdminOrderStatusRequest(a, "o1", s)
    \/ \E a \in BOOLEAN, s \in Statuses : OrderStatusRequest(a, "o1", s)
    \/ \E a \in BOOLEAN, t \in Trackings : OrderDispatchRequest(a, "o1", t)
    \/ \E a \in BOOLEAN, x \in Reasons : OrderCancelRequest(a, "o1", x)
    \/ \E a \in BOOLEAN : OrderDeleteRequest(a, "o1")
    \/ \E w \in writes : updateById(w)

SpecOrderRequests == Init /\ [][NextOrderRequests]_vars

\* the requests that may be between lookup and insert at once
CreateRequests == 1..MaxCreating

\* The creates of one collection never read or write another one, so a run
\* follows the creates of one collection.
OneCollection(kind) ==
    /\ \A k \in SteppedKinds \ {kind} : Len(docs[k]) = 0
    /\ \A c \in creating : c.kind = kind

\* creates of subcategories and products, their lookups and inserts interleaved
NextStepped ==
    \/ Tick
    \/ \E req \in CreateRequests, kind \in SteppedKinds, name \in Names :
           OneCollection(kind) /\ CreateLookup(req, kind, name)
    \/ \E c \in creating, dbOk \in BOOLEAN : CreateInsert(c, dbOk)

SpecStepped == Init /\ [][NextStepped]_vars

\* a code as the mail shows it
Plain(code) == Code(code, FALSE, FALSE)

\* the password reset flow of the admin, nothing failing: the code requested,
\* verified as the mail shows it or in another spelling, and passwords reset
NextReset ==
    \/ Elapse
    \/ \E email \in AdminEmails, code \in Codes : ForgotPassword(email, code, "none")
    \/ \E email \in AdminEmails, code \in RequestCodes :
           /\ trimToUpperCase(code).text = admins[email].reset_code
           /\ VerifyResetCode(email, code, "none", TRUE)
    \/ \E token \in ResetTokens, newPassword \in Passwords :
           ResetPassword(token, newPassword, "none")

SpecReset == Init /\ [][NextReset]_vars

\* the three routes that store a new code, verification, and the password
\* reset with calls that fail
NextNewCode ==
    \/ Elapse
    \/ \E email \in AdminEmails, code \in Codes : ForgotPassword(email, code, "none")
    \/ \E email \in AdminEmails, code \in Codes : ResendResetCode(email, code, "none")
    \/ \E email \in AdminEmails, code \in Codes : SendVerification(email, code, "none")
    \/ \E email \in AdminEmails, code \in Codes :
           VerifyResetCode(email, Plain(code), "none", TRUE)
    \/ \E token \in ResetTokens, fault \in ResetFaults :
           ResetPassword(token, Password("secret1", 7), fault)

SpecNewCode == Init /\ [][NextNewCode]_vars

\* codes requested and verified, right and wrong, with calls that fail
NextAttempts ==
    \/ \E email \in AdminEmails, code \in Codes : ForgotPassword(email, code, "none")
    \/ \E email \in AdminEmails, code \in Codes : ResendResetCode(email, code, "none")
    \/ \E email \in RequestEmails, code \in Codes, fault \in VerifyFaults, catchOk \in BOOLEAN :
           VerifyResetCode(email, Plain(code), fault, catchOk)

SpecAttempts == Init /\ [][NextAttempts]_vars

\* codes requested for any email, with calls that fail
NextCodes ==
    \/ Elapse
    \/ \E email \in RequestEmails, code \in Codes, fault \in CodeFaults :
           ForgotPassword(email, code, fault)
    \/ \E email \in RequestEmails, code \in Codes, fault \in CodeFaults :
           ResendResetCode(email, code, fault)
    \/ \E email \in RequestEmails, code \in Codes, fault \in CodeFaults :
           SendVerification(email, code, fault)

SpecCodes == Init /\ [][NextCodes]_vars

\* login, before and after a password reset
NextLogin ==
    \/ Elapse
    \/ \E email \in RequestEmails, password \in Passwords, secretSet \in BOOLEAN,
          fault \in LoginFaults :
           Login(email, password, secretSet, fault)
    \/ \E email \in AdminEmails : ForgotPassword(email, "K7Q2M9", "none")
    \/ \E email \in AdminEmails : VerifyResetCode(email, Plain("K7Q2M9"), "none", TRUE)
    \/ \E token \in ResetTokens : ResetPassword(token, Password("secret1", 7), "none")

SpecLogin == Init /\ [][NextLogin]_vars


AllowedTransitions ==
    {<<"Pending", "Dispatched">>, <<"Dispatched", "Delivered">>,
     <<"Pending", "Cancelled">>, <<"Dispatched", "Cancelled">>}

\* C1: whichever endpoint writes it, the status of a stored order changes only
\* along Pending->Dispatched, Dispatched->Delivered, Pending->Cancelled and
\* Dispatched->Cancelled; a Delivered order never becomes Cancelled.
C1_OnlyAllowedTransitions ==
    [][\A id \in DOMAIN orders \cap DOMAIN orders' :
          orders'[id].status # orders[id].status
              => <<orders[id].status, orders'[id].status>> \in AllowedTransitions]_vars

\* C2: the cancel endpoint, called on an existing order, answers 400 and leaves
\* the status Delivered when the order is Delivered; otherwise it answers with
\* success and the stored order is Cancelled and carries cancelledAt.
C2_CancelContract ==
    (ores.kind = "cancel" /\ ores.seen # "none" /\ OrderExists("o1"))
        => IF ores.seen = "Delivered"
           THEN ores.resp = 400 /\ orders["o1"].status = "Delivered"
           ELSE /\ ores.resp = 200
                /\ orders["o1"].status = "Cancelled"
                /\ orders["o1"].cancelledAt # 0

\* the fields of document id of a collection that differ between the state
\* before and the state after a step
ChangedFields(kind, id) ==
    {f \in DOMAIN docs[kind][id] : docs'[kind][id][f] # docs[kind][id][f]}

\* the stored fields a single-image update may touch given what it sent: the
\* name and the slug derived from it when a name is sent, the image when a
\* file is sent
SentFields(named, file) ==
    (IF named THEN {"name", "slug"} ELSE {}) \cup (IF file THEN {"image"} ELSE {})

\* the stored fields a product update may touch given what it sent
SentProductFields(named, qty, status, images) ==
    (IF named THEN {"name", "slug"} ELSE {})
        \cup (IF qty.sent THEN {"quantity_in_stock", "stock_status"} ELSE {})
        \cup (IF status # Absent THEN {"stock_status"} ELSE {})
        \cup (IF images THEN {"images"} ELSE {})

\* C3: every entity update (product PUT and PATCH, category, contact page and
\* rider PUT) leaves each stored field whose key the request did not send as
\* it was; a product PUT that sends neither existingImages, deletedImages nor
\* a file leaves the images of the product as they were.
C3_OmittedFieldKept ==
    [][\A id \in DocIds :
          /\ (last'.route = "put" /\ Found(last'.kind, id) /\ last'.kind # "product") =>
                \A r \in PutInputs :
                    \/ ChangedFields(last'.kind, id) \subseteq SentFields(r[1][1], r[2][1])
                    \/ /\ ~CategoryPut(id, r[1][1], r[1][2], r[2][1], r[2][2], r[2][3], r[3])
                       /\ ~ContactPut(id, r[1][1], r[1][2], r[2][1], r[2][2], r[2][3], r[3])
                       /\ ~RiderPut(id, r[1][1], r[1][2], r[2][1], r[2][2], r[2][3], r[3])
          /\ (last'.route = "putR2" /\ Found("rider", id)) =>
                \A r \in PutInputs :
                    \/ ChangedFields("rider", id) \subseteq SentFields(r[1][1], r[2][1])
                    \/ ~RiderPutR2(id, r[1][1], r[1][2], r[2][1], r[2][2], r[2][3], r[3])
          /\ (last'.route = "patch" /\ Found("product", id)) =>
                \A r \in ProductPatchInputs :
                    \/ ChangedFields("product", id)
                           \subseteq SentProductFields(r[1][1], r[2][1], r[2][2], r[3])
                    \/ ~ProductPatch(id, r[1][1], r[1][2], r[2][1], r[2][2], r[3], r[4])
          /\ (last'.route = "put" /\ last'.kind = "product" /\ Found("product", id)) =>
                \A r \in ProductPutInputs :
                    \/ ChangedFields("product", id)
                           \subseteq SentProductFields(r[1][1], r[2][1], r[2][2],
                                                       r[3][1] \/ r[3][2] \/ r[4][1])
                    \/ ~ProductPut(id, r[1][1], r[1][2], r[2][1], r[2][2], r[3][1], r[3][2],
                                   r[4][1], r[4][2], r[4][3], r[5])]_vars

\* C4: after every product write the stored stock_status is the one derived
\* from the stored quantity_in_stock: in_stock for a quantity of at least 1,
\* out_of_stock for 0, whatever stock_status the client sent.
C4_StockStatusDerived ==
    \A i \in 1..Len(docs["product"]) :
        docs["product"][i].stock_status
            = DerivedStockStatus(docs["product"][i].quantity_in_stock)

\* the steps that try to delete the old asset
DeleteSteps == {"delete_ok", "delete_false", "delete_throws"}

\* step e is among the steps of request r before position i
StepBefore(r, e, i) == \E j \in 1..(i - 1) : r.steps[j] = e

\* C6: in an update that replaces an image the new asset is uploaded, then the
\* record is updated, and only then the old asset is deleted: no delete of the
\* old asset runs before the upload succeeded and the record was updated, and
\* no record is updated with a new asset before its upload succeeded.
C6_UploadThenUpdateThenDelete ==
    last.route \in {"put", "putR2"} =>
        \A i \in 1..Len(last.steps) :
            last.steps[i] \in DeleteSteps =>
                StepBefore(last, "upload_ok", i) /\ StepBefore(last, "db_ok", i)

\* C7: every image URL stored in a record names an object that exists in
\* storage, whichever step of an update failed.
C7_NoDanglingImage ==
    \A kind \in Kinds : \A i \in 1..Len(docs[kind]) : ImagesOf(docs[kind][i]) \subseteq bucket

\* C8: a create or update whose upload of the new image failed writes nothing
\* to the database: no document is created and no document changes.
C8_FailedUploadWritesNothing ==
    [][(\E i \in 1..Len(last'.steps) : last'.steps[i] = "upload_failed") => docs' = docs]_vars

\* the update of a document that has an image with a new file, storage
\* taking the upload and the database the write
ReplaceImage(kind, id, n, delFails) ==
    /\ Found(kind, id)
    /\ docs[kind][id].image # NoImage
    /\ \/ kind = "category" /\ CategoryPut(id, n[1], n[2], TRUE, TRUE, delFails, TRUE)
       \/ kind = "contact" /\ ContactPut(id, n[1], n[2], TRUE, TRUE, delFails, TRUE)
       \/ kind = "rider" /\ RiderPut(id, n[1], n[2], TRUE, TRUE, delFails, TRUE)
       \/ kind = "rider" /\ RiderPutR2(id, n[1], n[2], TRUE, TRUE, delFails, TRUE)

\* C9: an update carrying a new image file for a document that has an image,
\* with the upload and the database update succeeding, answers success and
\* leaves the record with the new URL, whether the delete of the old image
\* succeeds, returns false or throws.
C9_ReplaceWhateverTheDelete ==
    [][\A id \in DocIds, delFails \in BOOLEAN, n \in NameInputs :
          (last'.route \in {"put", "putR2"} /\ ReplaceImage(last'.kind, id, n, delFails)) =>
              last'.resp = 200 /\ docs'[last'.kind][id].image = nextUrl]_vars

\* the documents of a collection created with a name, in the order created
CreatedWith(kind, name) == {i \in 1..Len(docs[kind]) : docs[kind][i].name = name}

\* C5: successive creates with the same name all succeed, the first document
\* gets the bare slug, each later one a suffixed slug, and the slugs are
\* pairwise distinct, also when creates fall in the same millisecond.
C5_SameNameCreatesAllSucceed ==
    /\ last.route = "create" => last.resp = 201
    /\ \A kind \in Kinds, name \in Names :
          \A i, j \in CreatedWith(kind, name) :
              /\ i < j => docs[kind][i].slug # docs[kind][j].slug
              /\ docs[kind][i].slug = Slugify(name) <=> (\A k \in CreatedWith(kind, name) : i <= k)

\* C10: when the upload of a file of the batch failed, the call fails and no
\* file of the batch is stored in the bucket.
C10_BatchAllOrNothing ==
    (\E f \in 1..Len(batch.files) : batch.files[f].state = "failed") =>
        /\ batch.result = "rejected"
        /\ \A f \in 1..Len(batch.files) : batch.files[f].url \notin bucket

\* C11: after any sequence of CMS save, update and reset requests, interleaved
\* or not, each theme_name has at most one record with isActive = true.
C11_OneActivePerTheme == \A theme \in Themes : Cardinality(ActiveOf(theme)) <= 1

\* a signed token that has not expired when the request arrives
ValidToken(token, at) == token.kind = "jwt" /\ token.key = "JWT_SECRET" /\ at < token.exp

\* the header is an Authorization: Bearer header with a valid token
ValidBearer(header, at) ==
    Len(header) = 2 /\ header[1] = "Bearer" /\ ValidToken(header[2], at)

\* C12 as stated: with the secret configured, a guarded request reaches the
\* handler if and only if the token cookie or the Bearer header carries a
\* valid, unexpired signed token; every other request is answered 401.
C12_ValidTokenInCookieOrHeader ==
    (probe.op = "verifyToken" /\ probe.secretSet) =>
        /\ probe.next <=> (ValidToken(probe.cookie, probe.at) \/ ValidBearer(probe.header, probe.at))
        /\ ~probe.next => probe.status = 401

\* C12 amended: the token that counts is the token cookie when the cookie is
\* not empty, and the Bearer header's token otherwise; the request reaches
\* the handler if and only if that token is valid and unexpired, and is
\* answered 401 otherwise.
C12_CookieFirstThenHeader ==
    (probe.op = "verifyToken" /\ probe.secretSet) =>
        /\ probe.next <=>
               IF probe.cookie.kind \in {"garbage", "jwt"}
               THEN ValidToken(probe.cookie, probe.at)
               ELSE ValidBearer(probe.header, probe.at)
        /\ ~probe.next => probe.status = 401

\* a request with an empty cookie reached the handler on the valid token of
\* its Bearer header
C12_Witness ==
    /\ probe.op = "verifyToken" /\ probe.secretSet /\ probe.next
    /\ probe.cookie.kind = "empty"
    /\ ValidBearer(probe.header, probe.at)
    /\ probe.at > 1

\* C13: whenever a stored order enters Cancelled, through the cancel route or
\* through a status update, the stored order carries a cancellation reason
\* (the text 'No reason provided' when the request gave none).
C13_CancelledCarriesReason ==
    [][\A id \in DOMAIN orders \cap DOMAIN orders' :
          (orders[id].status # "Cancelled" /\ orders'[id].status = "Cancelled")
              => orders'[id].cancellationReason \in (Reasons \ {""}) \cup {"No reason provided"}]_vars

\* the timestamp field that belongs to a status
StampOf(o, status) ==
    IF status = "Dispatched" THEN o.dispatchedAt
    ELSE IF status = "Delivered" THEN o.deliveredAt
    ELSE o.cancelledAt

\* the times a step may stamp: that of the step, or that of the request whose
\* write the step applies
RequestTimes == {now} \cup {w.at : w \in writes}

C15_SlugFollowsRename ==
    [][\A kind \in Kinds : \A id \in DocIds :
          (/\ Found(kind, id) /\ id <= Len(docs'[kind])
           /\ docs'[kind][id].slug # docs[kind][id].slug)
              => /\ docs'[kind][id].name # docs[kind][id].name
                 /\ \/ docs'[kind][id].slug = Slugify(docs'[kind][id].name)
                    \/ SlugTaken(kind, Slugify(docs'[kind][id].name), id)]_vars

\* the least number of pages of the given size that hold n documents
PagesNeeded(n, size) == CHOOSE k \in 0..n : k * size >= n /\ \A j \in 0..(k - 1) : j * size < n

Smaller(a, b) == IF a < b THEN a ELSE b

\* C16: a list request for page p >= 1 with limit L >= 1 over N matching
\* documents returns min(L, max(0, N - (p-1)*L)) documents, totalPages =
\* ceil(N / L), hasNext = (p < totalPages) and hasPrev = (p > 1).
C16_Pagination ==
    (probe.op \in {"orders", "products"} /\ probe.page >= 1 /\ probe.limit >= 1) =>
        /\ Len(probe.found)
               = Smaller(probe.limit,
                         IF probe.n - (probe.page - 1) * probe.limit > 0
                         THEN probe.n - (probe.page - 1) * probe.limit ELSE 0)
        /\ probe.totalPages = PagesNeeded(probe.n, probe.limit)
        /\ probe.hasNext <=> probe.page < PagesNeeded(probe.n, probe.limit)
        /\ probe.hasPrev <=> probe.page > 1

\* page 2 of 25 orders with limit 10: 10 documents, 3 pages, a next and a
\* previous page
C16_Witness ==
    /\ probe.op = "orders" /\ probe.n = 25 /\ probe.page = 2 /\ probe.limit = 10
    /\ Len(probe.found) = 10 /\ probe.totalPages = 3
    /\ probe.hasNext /\ probe.hasPrev

\* C17: a request that names an entity by an id the database driver rejects
\* with a cast error is answered 400 on every route that takes an id, never
\* 500.
C17_MalformedIdIs400 ==
    (probe.op = "byId" /\ probe.error = "CastError") => probe.status = 400

\* C19: in production mode no response with status 500 carries the message of
\* the underlying exception.
C19_NoMessageInProduction ==
    (probe.op \in {"byId", "next(err)"} /\ probe.env = "production" /\ probe.status = 500)
        => ~probe.exposes

\* C18: a create request that omits the name is answered 400 and creates no
\* document; it is never answered 500.
C18_MissingNameIs400 ==
    [][last'.route = "create without name" => (last'.resp = 400 /\ docs' = docs)]_vars

\* C20: a dispatch request for a stored order that is not Pending is answered
\* 400 and leaves its status, dispatchedAt and tracking as they were; for a
\* Pending order it is answered with success and the order is stored as
\* Dispatched with the tracking info of the request.
C20_DispatchContract ==
    [][\A t \in Trackings :
          (OrderExists("o1") /\ DispatchOrder("o1", t)) =>
              IF orders["o1"].status # "Pending"
              THEN /\ ores'.resp = 400
                   /\ orders'["o1"].status = orders["o1"].status
                   /\ orders'["o1"].dispatchedAt = orders["o1"].dispatchedAt
                   /\ orders'["o1"].tracking = orders["o1"].tracking
              ELSE /\ ores'.resp = 200
                   /\ orders'["o1"].status = "Dispatched"
                   /\ orders'["o1"].tracking = t]_vars

\* C21: a request without a valid token to an admin-only order route (status
\* update, dispatch, cancel, delete) neither changes nor deletes an order and
\* starts no write.
C21_UnauthenticatedChangesNothing ==
    [][(\/ \E s \in Statuses : OrderStatusRequest(FALSE, "o1", s)
        \/ \E s \in Statuses : AdminOrderStatusRequest(FALSE, "o1", s)
        \/ \E t \in Trackings : OrderDispatchRequest(FALSE, "o1", t)
        \/ \E x \in Reasons : OrderCancelRequest(FALSE, "o1", x)
        \/ OrderDeleteRequest(FALSE, "o1"))
           => (orders' = orders /\ writes' = writes)]_vars

\* C22: a dispatch or cancel request that was answered with an error status
\* does not change the stored order, neither before nor after its response.
\* Every write in flight was started by a request answered 500, and a request
\* answered 400 or 404 starts none.
C22_ErrorAnswerChangesNothing ==
    [][/\ \A w \in writes : updateById(w) => orders' = orders
       /\ ((\E t \in Trackings : DispatchOrder("o1", t)) \/ (\E x \in Reasons : CancelOrder("o1", x)))
              => (ores'.resp >= 400 => orders' = orders)]_vars

\* C23: the write of a cancel request that read the order before another
\* request stored Delivered does not turn the Delivered order into Cancelled.
C23_CancelKeepsDelivered ==
    [][\A w \in writes :
          (/\ w.kind = "cancel" /\ OrderExists(w.id)
           /\ orders[w.id].status = "Delivered"
           /\ updateById(w))
              => orders'[w.id].status = "Delivered"]_vars

\* C24: when creates with the same name run their slug lookups before either
\* inserts, no collection ever holds two documents with the same slug: with
\* the database up, the insert of a slug another document holds is answered
\* 400 and stores nothing, and any other insert is answered 201 and stores
\* the document under the slug of its lookup.
C24_NoTwoDocumentsWithOneSlug ==
    [][/\ \A kind \in SteppedKinds : \A i, j \in 1..Len(docs'[kind]) :
              docs'[kind][i].slug = docs'[kind][j].slug => i = j
       /\ \A c \in creating :
              CreateInsert(c, TRUE) =>
                  IF SlugTaken(c.kind, c.slug, 0)
                  THEN last'.resp = 400 /\ docs' = docs
                  ELSE /\ last'.resp = 201
                       /\ Len(docs'[c.kind]) = Len(docs[c.kind]) + 1
                       /\ docs'[c.kind][Len(docs'[c.kind])].slug = c.slug]_vars

\* two subcategory creates with one name looked the slug up before either
\* inserted; one holds the bare slug and the other was answered 400
C24_Witness ==
    /\ creating = {}
    /\ last = Request("insert", "subcategory", 400, <<"db_failed">>)
    /\ Len(docs["subcategory"]) = 1
    /\ docs["subcategory"][1].slug = Slugify(docs["subcategory"][1].name)

\* C25: every verify-reset-code request that carries a wrong code for the
\* email of an admin adds one to reset_attempts of that admin, and once five
\* requests with a wrong code have been made since the code was last
\* requested, no verify-reset-code request for that email is answered 200,
\* whichever code it carries.
C25_FiveWrongCodesLockOut ==
    [][\A email \in RequestEmails, code \in Codes, fault \in VerifyFaults, catchOk \in BOOLEAN :
          VerifyResetCode(email, Plain(code), fault, catchOk) =>
              LET e == emailToLowerCase(email)
              IN  /\ WrongCode(email, Plain(code)) =>
                         admins'[e].reset_attempts = admins[e].reset_attempts + 1
                  /\ (e \in AdminEmails /\ history[e].wrongCodes >= AttemptLimit) =>
                         probe'.status # 200]_vars

\* C26: a reset-password request answered 200 leaves the admin that held the
\* token with isReset false, code and token empty and reset_attempts 0; and,
\* the database answering, every reset-password request that carries a token
\* which has already changed a password is answered 400 and leaves the
\* password of every admin as it was.
C26_TokenChangesPasswordOnce ==
    [][\A token \in ResetTokens, newPassword \in Passwords :
          ResetPassword(token, newPassword, "none") =>
              /\ probe'.status = 200 =>
                     \A e \in TokenHolders(token) :
                         /\ ~admins'[e].isReset
                         /\ admins'[e].reset_code = ""
                         /\ admins'[e].reset_token = NoToken
                         /\ admins'[e].reset_attempts = 0
                         /\ admins'[e].password = bcryptHash(newPassword)
              /\ (\E e \in AdminEmails : token \in history[e].spent) =>
                     /\ probe'.status = 400
                     /\ \A e \in AdminEmails : admins'[e].password = admins[e].password]_vars

\* a token changed the password, and a later request with the same token and
\* a password of valid length found no admin holding it and was answered 400;
\* the reset state of the admin is cleared
C26_Witness ==
    \E e \in AdminEmails :
        /\ probe.op = "reset-password"
        /\ probe.status = 400
        /\ probe.message = "Invalid or expired reset token"
        /\ probe.token \in history[e].spent
        /\ admins[e].password # NewAdmin.password
        /\ ~admins[e].isReset
        /\ admins[e].reset_token = NoToken

\* C27: with the mail sent and the database answering, forgot-password and
\* resend-reset-code answer a request whose email belongs to an admin with
\* the status and body they answer the request that differs only in its
\* email, which belongs to no admin.
C27_AnswerHidesWhetherEmailExists ==
    [][\A op \in DOMAIN CodeMessages, email \in RequestEmails, other \in RequestEmails,
          code \in Codes :
          (/\ emailToLowerCase(email) \in AdminEmails
           /\ other # NoEmail
           /\ emailToLowerCase(other) \notin AdminEmails
           /\ RequestCode(op, email, code, "none"))
              => probe' = CodeAnswer(op, other, "none")]_vars

\* the supplied password is the stored password of the admin with the
\* supplied email: bcrypt.compare of the password with the stored hash
PasswordMatches(email, password) ==
    /\ email \in AdminEmails
    /\ admins[email].password = bcryptHash(password)

\* C28: login answers with a signed token and sets the token cookie only when
\* the supplied password matches the stored password of the admin with the
\* supplied email; a request with the email of an admin and a wrong password
\* is answered 401 'Invalid credentials' and receives neither token nor
\* cookie.
C28_TokenOnlyForRightPassword ==
    [][\A email \in RequestEmails, password \in Passwords, secretSet \in BOOLEAN,
          fault \in LoginFaults :
          Login(email, password, secretSet, fault) =>
              /\ (probe'.token # Undefined \/ probe'.cookie # Undefined) =>
                     PasswordMatches(email, password)
              /\ (email \in AdminEmails /\ password # NoPassword
                    /\ ~PasswordMatches(email, password) /\ fault = "none" /\ secretSet) =>
                     /\ probe'.status = 401
                     /\ probe'.error = "Invalid credentials"
                     /\ probe'.token = Undefined
                     /\ probe'.cookie = Undefined]_vars

\* C29: once forgot-password, resend-reset-code or send-verification has
\* stored a new code for an admin, a reset-password request that carries the
\* token verify-reset-code issued for the code before is not answered 200 and
\* changes no password.
C29_NewCodeRevokesOldToken ==
    [][\A token \in ResetTokens, fault \in ResetFaults :
          (/\ \E e \in AdminEmails : token \in history[e].superseded
           /\ ResetPassword(token, Password("secret1", 7), fault))
              => /\ probe'.status # 200
                 /\ \A e \in AdminEmails : admins'[e].password = admins[e].password]_vars

====
